---- MODULE Spec2Model ----
(***************************************************************************)
(* Google OAuth2 login with Passport, Express sessions and a Mongoose      *)
(* User model (starter-code/app/app.js, starter-code/app/models/user.js). *)
(*                                                                         *)
(* app.js holds two Express applications one after the other (lines 1-87  *)
(* and lines 89-158).  Both use the one passport object of the process     *)
(* (require('passport') is cached), so the serializers of lines 30-35 and  *)
(* the verify function of the Google strategy serve both; each application *)
(* registers its own routes and calls listen(3000).  The variable app      *)
(* says which of the two applications answers the requests.                *)
(*                                                                         *)
(* A callback request is answered in steps: the verify function issues     *)
(* findOne, and the find-or-create goes on when the database answers.      *)
(* Spec takes the requests one after the other; SpecInterleaved lets other *)
(* requests in between those steps.                                        *)
(*                                                                         *)
(* The version of Mongoose is not pinned by the sources: whether a query   *)
(* filter is cast strictly against the schema (strictQuery) is a property  *)
(* of the build, chosen in Init.                                           *)
(***************************************************************************)
EXTENDS Integers, Sequences, FiniteSets, TLC

\* ------------------------------------------------------------------ bounds
NumSessions == 2
NumGoogleIds == 2
MaxDocs == 2

Sessions == 1..NumSessions
GoogleIds == 1..NumGoogleIds

\* ------------------------------------------------------------ JS values
Undefined == [undefined |-> TRUE]
JsNull == [null |-> TRUE]
NoError == "null"
DbErrors == {"MongoNetworkError", "MongoTimeoutError"}

Truthy(v) == v \notin {Undefined, JsNull}

Restrict(f, S) == [k \in (DOMAIN f) \cap S |-> f[k]]

VARIABLES
  app,          \* which Express application serves: 1 (line 5) or 2 (line 93)
  strictQuery,  \* Mongoose casts query filters strictly against the schema
  store,        \* the users collection, in insertion order
  createdFor,   \* history: createdFor[i] = profile.id whose login built _id i
  session,      \* session[s] = req.session.passport.user of session s
  pc,           \* position of the /auth/google/callback request of s
  prof,         \* profile.id handed to the verify function of s
  obj,          \* the document find-or-create is saving for s
  hadDoc,       \* history: a document of that profile.id was stored when the
                \* verify function of s was called
  missed,       \* history: no document of that profile.id was stored when
                \* the findOne of s answered without a result
  lastLogin,    \* history: user of the last successful callback since logout
  resp          \* the last response sent, with the done call behind it

vars == <<app, strictQuery, store, createdFor, session, pc, prof, obj,
          hadDoc, missed, lastLogin, resp>>

\* ------------------------------------------------------- models/user.js
\* userSchema: the paths a User document can hold.
userSchema == {"google.id", "google.access_token", "google.email"}

\* new User(fields): the schema is strict, fields outside it are dropped;
\* Mongoose assigns _id when the document is constructed.
NewUser(id, fields) == ("_id" :> id) @@ Restrict(fields, userSchema)

\* The filter Mongoose sends for User.findOne(conditions).
CastFilter(conditions) ==
  IF strictQuery THEN Restrict(conditions, userSchema) ELSE conditions

Matches(doc, filter) ==
  \A k \in DOMAIN filter : k \in DOMAIN doc /\ doc[k] = filter[k]

\* User.findOne(conditions): the first matching document, or null.
findOne(conditions) ==
  LET hits == {i \in 1..Len(store) : Matches(store[i], CastFilter(conditions))}
  IN IF hits = {} THEN JsNull
     ELSE store[CHOOSE i \in hits : \A j \in hits : i <= j]

\* ------------------------------------------------------------- app.js
\* Variant: only the google sub-document is kept in the session.
serializeUser_GoogleOnly(user) ==
  [err |-> NoError, obj |-> Restrict(user, userSchema)]

serializeUser(user) == [err |-> NoError, obj |-> user]

\* Variant: the user is looked up again with the find-or-create conditions.
deserializeUser_Lookup(user) ==
  [err |-> NoError, user |-> findOne("googleId" :> user["_id"])]

deserializeUser(user) == [err |-> NoError, user |-> user]

\* passport.session(): req.user of a request of session s.
reqUser(s) ==
  IF session[s] = Undefined THEN Undefined
  ELSE LET d == deserializeUser(session[s])
       IN IF d.err = NoError /\ Truthy(d.user) THEN d.user ELSE Undefined

\* views/layout.hbs: {{#if user}} logout link and data {{else}} login link.
layout(user) == IF Truthy(user) THEN "logout_link" ELSE "login_link"

\* What the verify function did for the request answered: the profile.id it
\* was given, what find-or-create reported (cbErr, cbUser, created), whether
\* a document built for that profile.id was stored when it was called
\* (existed) and when it called back (existsNow), whether its findOne had no
\* result while no such document was stored (missed), and the calls of done
\* with their arguments.
NoDone == [calls |-> 0, p |-> 0, cbErr |-> NoError, cbUser |-> Undefined,
           created |-> FALSE, existed |-> FALSE, existsNow |-> FALSE,
           missed |-> FALSE,
           err |-> NoError, user |-> Undefined]

Response(s, route, status, location, scope, view, user, done) ==
  [sid |-> s, route |-> route, status |-> status, location |-> location,
   scope |-> scope, view |-> view, user |-> user, done |-> done]

Init ==
  /\ app \in {1, 2}
  /\ strictQuery \in BOOLEAN
  /\ store = <<>>
  /\ createdFor = <<>>
  /\ session = [s \in Sessions |-> Undefined]
  /\ pc = [s \in Sessions |-> "idle"]
  /\ prof = [s \in Sessions |-> 0]
  /\ obj = [s \in Sessions |-> Undefined]
  /\ hadDoc = [s \in Sessions |-> FALSE]
  /\ missed = [s \in Sessions |-> FALSE]
  /\ lastLogin = [s \in Sessions |-> Undefined]
  /\ resp = Response(0, "none", 0, "none", "none", "none", Undefined, NoDone)

\* Variant: the view is rendered without the user of the request.
Home_NoUser(s) ==
  /\ resp' = Response(s, "/", 200, "none", "none", layout(Undefined),
                      Undefined, NoDone)
  /\ UNCHANGED <<app, strictQuery, store, createdFor, session, pc, prof, obj,
                 hadDoc, missed, lastLogin>>

\* GET / : res.render('layout', {user: req.user}).
Home(s) ==
  /\ resp' = Response(s, "/", 200, "none", "none", layout(reqUser(s)),
                      reqUser(s), NoDone)
  /\ UNCHANGED <<app, strictQuery, store, createdFor, session, pc, prof, obj,
                 hadDoc, missed, lastLogin>>

\* Variant: starting a login drops the user of the session.
AuthGoogle_DropsUser(s) ==
  /\ resp' = Response(s, "/auth/google", 302, "accounts.google.com", "email",
                      "none", Undefined, NoDone)
  /\ session' = [session EXCEPT ![s] = Undefined]
  /\ UNCHANGED <<app, strictQuery, store, createdFor, pc, prof, obj,
                 hadDoc, missed, lastLogin>>

\* GET /auth/google : passport.authenticate('google', {scope: 'email'})
\* redirects to the consent screen of the provider.
AuthGoogle(s) ==
  /\ resp' = Response(s, "/auth/google", 302, "accounts.google.com", "email",
                      "none", Undefined, NoDone)
  /\ UNCHANGED <<app, strictQuery, store, createdFor, session, pc, prof, obj,
                 hadDoc, missed, lastLogin>>

\* GET /logout of the first application: () => { req.logout(); ... } takes
\* no parameters, req is not defined, Express answers the exception with 500.
LogoutStarter(s) ==
  /\ resp' = Response(s, "/logout", 500, "none", "none", "none", Undefined, NoDone)
  /\ session' = session

\* GET /logout of the second application: req.logout(); res.redirect("/").
LogoutSolution(s) ==
  /\ session' = [session EXCEPT ![s] = Undefined]
  /\ resp' = Response(s, "/logout", 302, "/", "none", "none", Undefined, NoDone)

Logout(s) ==
  /\ IF app = 1 THEN LogoutStarter(s) ELSE LogoutSolution(s)
  /\ lastLogin' = [lastLogin EXCEPT ![s] = Undefined]
  /\ UNCHANGED <<app, strictQuery, store, createdFor, pc, prof, obj, hadDoc,
                 missed>>

\* Variant: failureRedirect is '/login', as in the Passport documentation.
authenticate_LoginPage(s, err, user, done) ==
  IF err # NoError
  THEN /\ resp' = Response(s, "/auth/google/callback", 500, "none", "none",
                           "none", Undefined, done)
       /\ UNCHANGED <<session, lastLogin>>
  ELSE IF ~Truthy(user)
  THEN /\ resp' = Response(s, "/auth/google/callback", 302, "/login", "none",
                           "none", Undefined, done)
       /\ UNCHANGED <<session, lastLogin>>
  ELSE /\ session' = [session EXCEPT ![s] = serializeUser(user).obj]
       /\ lastLogin' = [lastLogin EXCEPT ![s] = user]
       /\ resp' = Response(s, "/auth/google/callback", 302, "/",
                           "none", "none", user, done)

\* passport.authenticate('google', {successRedirect: '/', failureRedirect: '/'})
\* once the strategy has its verdict (err, user): an error goes to next(err),
\* a missing user is a failure, a user is logged in through serializeUser.
authenticate(s, err, user, done) ==
  IF err # NoError
  THEN /\ resp' = Response(s, "/auth/google/callback", 500, "none", "none",
                           "none", Undefined, done)
       /\ UNCHANGED <<session, lastLogin>>
  ELSE IF ~Truthy(user)
  THEN /\ resp' = Response(s, "/auth/google/callback", 302, "/", "none",
                           "none", Undefined, done)
       /\ UNCHANGED <<session, lastLogin>>
  ELSE LET ser == serializeUser(user)
       IN IF ser.err # NoError
          THEN /\ resp' = Response(s, "/auth/google/callback", 500, "none",
                                   "none", "none", Undefined, done)
               /\ UNCHANGED <<session, lastLogin>>
          ELSE /\ session' = [session EXCEPT ![s] = ser.obj]
               /\ lastLogin' = [lastLogin EXCEPT ![s] = user]
               /\ resp' = Response(s, "/auth/google/callback", 302, "/",
                                   "none", "none", user, done)

\* The conditions of the find-or-create: { googleId: profile.id }.
conditions(p) == ("googleId" :> p)

\* A document built by a login of profile.id p is in the collection.
Existed(p) == \E i \in 1..Len(store) : createdFor[store[i]["_id"]] = p

\* Variant: function (err, user) { return done(null, user); }
findOrCreateCallback_DropsError(s, err, user, created) ==
  authenticate(s, NoError, user,
               [calls |-> 1, p |-> prof[s], cbErr |-> err, cbUser |-> user,
                created |-> created, existed |-> hadDoc[s],
                existsNow |-> Existed(prof[s]), missed |-> missed[s],
                err |-> NoError, user |-> user])

\* function (err, user) { return done(err, user); }
findOrCreateCallback(s, err, user, created) ==
  authenticate(s, err, user,
               [calls |-> 1, p |-> prof[s], cbErr |-> err, cbUser |-> user,
                created |-> created, existed |-> hadDoc[s],
                existsNow |-> Existed(prof[s]), missed |-> missed[s],
                err |-> err, user |-> user])

\* The provider refuses (consent denied, bad code): the strategy fails
\* without calling the verify function.
CallbackDenied(s) ==
  /\ pc[s] = "idle"
  /\ authenticate(s, NoError, Undefined, NoDone)
  /\ UNCHANGED <<app, strictQuery, store, createdFor, pc, prof, obj, hadDoc,
                 missed>>

InFlight == {t \in Sessions : pc[t] = "findOne"}

\* The provider returns a profile: the verify function runs
\* User.findOrCreate({ googleId: profile.id }, ...), which issues findOne.
GoogleStrategyVerify(s, p) ==
  /\ pc[s] = "idle"
  /\ Len(createdFor) + Cardinality(InFlight) < MaxDocs
  /\ pc' = [pc EXCEPT ![s] = "findOne"]
  /\ prof' = [prof EXCEPT ![s] = p]
  /\ hadDoc' = [hadDoc EXCEPT ![s] = Existed(p)]
  /\ UNCHANGED <<app, strictQuery, store, createdFor, session, obj, missed,
                 lastLogin, resp>>

\* The request of s is answered: its verify function is over.
Finish(s) ==
  /\ pc' = [pc EXCEPT ![s] = "idle"]
  /\ prof' = [prof EXCEPT ![s] = 0]
  /\ obj' = [obj EXCEPT ![s] = Undefined]
  /\ hadDoc' = [hadDoc EXCEPT ![s] = FALSE]
  /\ missed' = [missed EXCEPT ![s] = FALSE]

\* findOne fails: findOrCreate calls back with the error and no result.
FindOneError(s, e) ==
  /\ pc[s] = "findOne"
  /\ findOrCreateCallback(s, e, Undefined, FALSE)
  /\ Finish(s)
  /\ UNCHANGED <<app, strictQuery, store, createdFor>>

\* findOne answers: a result is handed to the callback; without one
\* findOrCreate builds new User(conditions) and saves it.
FindOneReply(s) ==
  /\ pc[s] = "findOne"
  /\ LET result == findOne(conditions(prof[s]))
     IN IF result # JsNull
        THEN /\ findOrCreateCallback(s, NoError, result, FALSE)
             /\ Finish(s)
             /\ UNCHANGED createdFor
        ELSE /\ pc' = [pc EXCEPT ![s] = "save"]
             /\ obj' = [obj EXCEPT ![s] =
                          NewUser(Len(createdFor) + 1, conditions(prof[s]))]
             /\ createdFor' = Append(createdFor, prof[s])
             /\ missed' = [missed EXCEPT ![s] = ~Existed(prof[s])]
             /\ UNCHANGED <<session, lastLogin, resp, prof, hadDoc>>
  /\ UNCHANGED <<app, strictQuery, store>>

\* obj.save fails: findOrCreate calls back with the error and the document.
SaveError(s, e) ==
  /\ pc[s] = "save"
  /\ findOrCreateCallback(s, e, obj[s], TRUE)
  /\ Finish(s)
  /\ UNCHANGED <<app, strictQuery, store, createdFor>>

\* obj.save succeeds: the document is in the collection.
SaveReply(s) ==
  /\ pc[s] = "save"
  /\ store' = Append(store, obj[s])
  /\ findOrCreateCallback(s, NoError, obj[s], TRUE)
  /\ Finish(s)
  /\ UNCHANGED <<app, strictQuery, createdFor>>

\* A callback request is between two database round trips.
Busy == \E t \in Sessions : pc[t] # "idle"

\* A request arrives.
Request ==
  \/ \E s \in Sessions : Home(s)
  \/ \E s \in Sessions : AuthGoogle(s)
  \/ \E s \in Sessions : Logout(s)
  \/ \E s \in Sessions : CallbackDenied(s)
  \/ \E s \in Sessions, p \in GoogleIds : GoogleStrategyVerify(s, p)

\* The database answers the find-or-create of a callback request.
DbReply ==
  \/ \E s \in Sessions, e \in DbErrors : FindOneError(s, e)
  \/ \E s \in Sessions : FindOneReply(s)
  \/ \E s \in Sessions, e \in DbErrors : SaveError(s, e)
  \/ \E s \in Sessions : SaveReply(s)

\* The requests are answered one after the other: a request arrives when the
\* one before it has its response.
Next ==
  \/ ~Busy /\ Request
  \/ DbReply

Spec == Init /\ [][Next]_vars

\* Requests overlap: while a callback request waits for the database, other
\* requests arrive and are answered.
NextInterleaved ==
  \/ Request
  \/ DbReply

SpecInterleaved == Init /\ [][NextInterleaved]_vars

\* ---------------------------------------------------------------- claims
Callback == "/auth/google/callback"

\* The last response answers a callback whose verify function called done
\* with a user and no error.
DoneWithUser ==
  /\ resp.route = Callback
  /\ resp.done.calls > 0
  /\ resp.done.err = NoError
  /\ Truthy(resp.done.user)

\* C1: a login by a Google identity that already has a User document
\* creates no new document, so the store holds at most one document per
\* distinct Google id.
C1_OneUserPerGoogleId ==
  (DoneWithUser /\ resp.done.existed) => ~resp.done.created

\* C2: GET /logout, in any session state, clears the user of the session and
\* answers with a redirect to /; GET / then renders the logged-out view until
\* the next successful callback of the session.
C2_LogoutClearsSession ==
  /\ resp.route = "/logout" =>
       /\ resp.status = 302
       /\ resp.location = "/"
       /\ session[resp.sid] = Undefined
  /\ (resp.route = "/" /\ lastLogin[resp.sid] = Undefined) =>
       resp.view = "login_link"

\* C3: GET / renders the logged-in branch exactly when the session carries a
\* user, hands the view the user of the session or undefined, and changes
\* neither the session nor the user store.
C3_HomeState ==
  resp.route = "/" =>
    /\ resp.status = 200
    /\ resp.view = "logout_link" <=> session[resp.sid] # Undefined
    /\ resp.view = "login_link" <=> session[resp.sid] = Undefined
    /\ resp.user = session[resp.sid]

C3_HomeFrame ==
  (resp'.route = "/") => UNCHANGED <<session, store>>

C3_HomeRendersSessionUser == []C3_HomeState /\ [][C3_HomeFrame]_vars

C3_Witness ==
  /\ resp.route = "/"
  /\ resp.view = "logout_link"
  /\ Len(store) > 0

\* C4: a callback whose verify function passes a user and no error to done
\* establishes the session with that user and redirects to /; a callback
\* whose authentication fails redirects to / and leaves the session as it
\* was.
C4_SuccessState ==
  DoneWithUser =>
    /\ resp.status = 302
    /\ resp.location = "/"
    /\ session[resp.sid] = resp.done.user

C4_FailureStep ==
  (resp'.route = Callback /\ resp'.done.calls = 0) =>
    /\ resp'.status = 302
    /\ resp'.location = "/"
    /\ session' = session

C4_CallbackRouting == []C4_SuccessState /\ [][C4_FailureStep]_vars

C4_Witness ==
  /\ DoneWithUser
  /\ session[resp.sid] = resp.done.user
  /\ \E t \in Sessions : t # resp.sid /\ session[t] # Undefined

\* C5: serializeUser yields the user itself and deserializeUser yields the
\* stored value back, both without error, so the session of a logged-in
\* browser holds the whole user object of the login.
Users ==
  {store[i] : i \in 1..Len(store)}
    \cup {session[s] : s \in {t \in Sessions : session[t] # Undefined}}

C5_VerbatimRoundTrip ==
  /\ \A u \in Users :
       /\ serializeUser(u) = [err |-> NoError, obj |-> u]
       /\ deserializeUser(serializeUser(u).obj) = [err |-> NoError, user |-> u]
  /\ \A s \in Sessions :
       lastLogin[s] # Undefined => session[s] = lastLogin[s]

C5_Witness ==
  \E s \in Sessions :
    /\ lastLogin[s] # Undefined
    /\ session[s] = lastLogin[s]
    /\ \E i \in 1..Len(store) : store[i] = session[s]

\* C6: GET /auth/google only redirects to the consent screen of the provider
\* with scope 'email'; the user store and the sessions stay as they were.
C6_AuthGoogleStep ==
  (resp'.route = "/auth/google") =>
    /\ resp'.status = 302
    /\ resp'.location = "accounts.google.com"
    /\ resp'.scope = "email"
    /\ UNCHANGED <<session, store>>

C6_AuthGoogleOnlyRedirects == [][C6_AuthGoogleStep]_vars

C6_Witness ==
  /\ resp.route = "/auth/google"
  /\ session[resp.sid] # Undefined
  /\ Len(store) > 0

\* C7: the store only grows and stored documents never change; a document is
\* added only by a successful callback of a Google identity that had no
\* document, and a login of an identity that has one reads that document.
IsPrefix(a, b) == Len(a) <= Len(b) /\ \A i \in 1..Len(a) : a[i] = b[i]

C7_StoreStep ==
  /\ IsPrefix(store, store')
  /\ store' # store =>
       /\ resp'.route = Callback
       /\ resp'.done.created
       /\ ~resp'.done.existed
  /\ (resp'.route = Callback /\ resp'.done.calls > 0
        /\ resp'.done.err = NoError /\ resp'.done.existed) =>
       /\ store' = store
       /\ \E i \in 1..Len(store) :
            /\ store[i] = resp'.done.user
            /\ createdFor[store[i]["_id"]] = resp'.done.p

C7_DocumentsOnlyAddedForNewIdentity == [][C7_StoreStep]_vars

\* C8: when find-or-create reports a database error the verify function
\* passes that error (and what came with it) to done unchanged, and the
\* request establishes no session user.
C8_ErrorState ==
  (resp.route = Callback /\ resp.done.cbErr # NoError) =>
    /\ resp.done.calls = 1
    /\ resp.done.err = resp.done.cbErr
    /\ resp.done.user = resp.done.cbUser
    /\ resp.status = 500

C8_ErrorStep ==
  (resp'.route = Callback /\ resp'.done.cbErr # NoError) =>
    session' = session

C8_DbErrorPassedThrough == []C8_ErrorState /\ [][C8_ErrorStep]_vars

C8_Witness ==
  /\ resp.route = Callback
  /\ resp.done.cbErr \in DbErrors
  /\ resp.done.err = resp.done.cbErr
  /\ resp.done.created

\* C9: an invocation of the verify function calls done exactly once, with
\* the existing user when a user for profile.id exists, and with a newly
\* created user otherwise.
C9_DoneGetsFindOrCreateResult ==
  (resp.route = Callback /\ resp.done.p # 0) =>
    /\ resp.done.calls = 1
    /\ (resp.done.err = NoError /\ resp.done.existed) =>
         /\ ~resp.done.created
         /\ createdFor[resp.done.user["_id"]] = resp.done.p
    /\ (resp.done.err = NoError /\ ~resp.done.existsNow) =>
         /\ resp.done.created
         /\ createdFor[resp.done.user["_id"]] = resp.done.p

\* C10: between a successful callback of a session and its next /logout,
\* req.user of the session is the user that callback passed to done, and a
\* request of another session never changes it.
C10_SessionState ==
  \A s \in Sessions : lastLogin[s] # Undefined => reqUser(s) = lastLogin[s]

C10_OtherSessionsStep ==
  \A s \in Sessions :
    reqUser(s)' # reqUser(s) =>
      /\ resp'.sid = s
      /\ resp'.route \in {Callback, "/logout"}

C10_ReqUserIsLastLogin == []C10_SessionState /\ [][C10_OtherSessionsStep]_vars

C10_Witness ==
  /\ resp.route = "/"
  /\ lastLogin[resp.sid] # Undefined
  /\ resp.user = lastLogin[resp.sid]
  /\ \E t \in Sessions :
       /\ t # resp.sid
       /\ lastLogin[t] # Undefined
       /\ lastLogin[t] # lastLogin[resp.sid]

\* C11: when two callbacks of the same Google identity that has no document
\* are interleaved, both findOne answering before either document is saved,
\* the store still ends with at most one document of that identity.
DocsOf(p) == {i \in 1..Len(store) : createdFor[store[i]["_id"]] = p}

C11_InterleavedCallbacksOneUser ==
  (DoneWithUser /\ resp.done.created /\ resp.done.missed) =>
    Cardinality(DocsOf(resp.done.p)) <= 1
====
